---------------------------- MODULE Spec2Model ----------------------------
(***************************************************************************)
(* Model of src/src/simulator.py: ArenaEnv, an agent moving inside a       *)
(* regular polygonal arena and the binary "retina" image it sees.          *)
(*                                                                         *)
(* Numbers are fixed point:                                                *)
(*   angles      integer units, TwoPi units to the full circle             *)
(*   cos, sin    thousandths (CosTab)                                      *)
(*   lengths     whole length units (positions, speed, wall vertices)      *)
(*   heights     thousandths of a length unit (wall_height, agent_height,  *)
(*               agent_pov_dist, retina_scale)                             *)
(*   ray hits    hundredths of a length unit (intersection, distances)     *)
(* Arrays are functions over 0..n-1, as numpy indexes them; a point is a   *)
(* pair <<x, y>>.                                                          *)
(***************************************************************************)
EXTENDS Integers, Sequences, FiniteSets, TLC

VARIABLES
    agent_position,   \* self.agent_position
    agent_direction,  \* self.agent_direction
    retina,           \* self.retina, the internal (un-reversed) buffer
    returned,         \* the buffer the last step call returned; <<>> before any call
    outcome,          \* branch of the last step's containment test: "none", "commit", "reject"
    agent_edge_directions, \* step's local: shifted bearing of every wall vertex
    distances,        \* step's local: distance to the wall along every ray
    b,                \* step's local b: floor row of every column
    h,                \* step's local h: ceiling row of every column
    edges,            \* step's local edges: edges[i][v], column i holds vertex v
    args,             \* the arguments __init__ was called with
    status            \* "new" before __init__ runs, then "ready", or "error" if it raised

vars == <<agent_position, agent_direction, retina, returned, outcome,
         agent_edge_directions, distances, b, h, edges, args, status>>

----------------------------------------------------------------------------
(* Bounds of the model *)

\* step is called with speed in -MaxSpeed..MaxSpeed
MaxSpeed == 2
\* step is called with direction in -MaxTurn..MaxTurn times TurnStep
MaxTurn == 2

----------------------------------------------------------------------------
(* Constructor arguments of the modelled configuration *)

wall_dist == 5
wall_height == 1000
num_walls == 4
retina_dims == <<10, 6>>
retina_scale == 25
retina_pov_horizon == 4
agent_height == 500
agent_pov_dist == 500
\* 2 * np.pi in angle units
TwoPi == 48
\* 1.5 * np.pi
agent_view_angle == 3 * (TwoPi \div 4)

\* five eighths of a turn: the directions reach all eight octants, and
\* MaxTurn * TurnStep exceeds a full turn
TurnStep == 5 * (TwoPi \div 8)
Speeds == (-MaxSpeed)..MaxSpeed
Turns == {k * TurnStep : k \in (-MaxTurn)..MaxTurn}

----------------------------------------------------------------------------
(* Arithmetic *)

\* n / d rounded to the nearest integer (d > 0)
RoundDiv(n, d) == (2 * n + d) \div (2 * d)

\* the quotient q[1] / q[2] rounded to the nearest integer
astype_int_rounded(q) == RoundDiv(q[1], q[2])

\* ndarray.astype(int) of the quotient q[1] / q[2]: the fraction is dropped,
\* towards zero (q[2] > 0)
astype_int(q) == IF q[1] >= 0 THEN q[1] \div q[2] ELSE -((-q[1]) \div q[2])

\* a remainder that takes the sign of x, as C's fmod does
Mod2Pi_fmod(x) == IF x >= 0 THEN x % TwoPi ELSE -((-x) % TwoPi)

\* x % (2 * np.pi): Python's remainder takes the sign of the divisor
Mod2Pi(x) == x % TwoPi

CosTab ==
    <<1000, 991, 966, 924, 866, 793, 707, 609, 500, 383, 259, 131,
      0, -131, -259, -383, -500, -609, -707, -793, -866, -924, -966, -991,
      -1000, -991, -966, -924, -866, -793, -707, -609, -500, -383, -259, -131,
      0, 131, 259, 383, 500, 609, 707, 793, 866, 924, 966, 991>>

\* np.cos, np.sin in thousandths, of any angle
Cos(a) == CosTab[(a % TwoPi) + 1]
Sin(a) == Cos(a - TwoPi \div 4)

RECURSIVE Tabulate(_, _)
Tabulate(f, S) ==
    IF S = {} THEN <<>>
    ELSE LET i == CHOOSE x \in S : TRUE
         IN  (i :> f[i]) @@ Tabulate(f, S \ {i})

\* the array f itself, every entry computed once
Array(f) == Tabulate(f, DOMAIN f)

Cross(u, v) == u[1] * v[2] - u[2] * v[1]
Minus(u, v) == <<u[1] - v[1], u[2] - v[2]>>

RECURSIVE SqrtSearch(_, _, _)
\* the k in lo..hi-1 with k*k <= n < (k+1)*(k+1), given lo*lo <= n < hi*hi
SqrtSearch(n, lo, hi) ==
    IF hi - lo <= 1 THEN lo
    ELSE LET mid == (lo + hi) \div 2
         IN  IF mid * mid <= n THEN SqrtSearch(n, mid, hi) ELSE SqrtSearch(n, lo, mid)

\* np.linalg.norm of a vector, rounded down
Norm(v) == SqrtSearch(v[1] * v[1] + v[2] * v[2], 0, 46340)

----------------------------------------------------------------------------
(* The arena *)

wall_view_angle == TwoPi \div num_walls

\* angles of the ring of vertices: num_walls of them and the first again,
\* turned back by half a wall
angles ==
    Array([k \in 0..num_walls |->
        wall_view_angle * (k % num_walls) - wall_view_angle \div 2])

\* self.walls: the exterior ring
walls ==
    Array([k \in 0..num_walls |->
        <<RoundDiv(wall_dist * Cos(angles[k]), 1000),
          RoundDiv(wall_dist * Sin(angles[k]), 1000)>>])

\* self.walls.contains(Point(p)): p is in the interior of the (convex,
\* counter-clockwise) polygon; a point of the boundary is not contained
Contains(p) ==
    \A k \in 0..(num_walls - 1) :
        Cross(Minus(walls[k + 1], walls[k]), Minus(p, walls[k])) > 0

\* the component of p2 - p1 along the angle a, in thousandths
Along(p1, p2, a) == (p2[1] - p1[1]) * Cos(a) + (p2[2] - p1[2]) * Sin(a)

\* find_angle(p1, p2): arctan2 of p2 - p1 wrapped to [0, 2 pi), to the nearest
\* angle unit (the lower one on a tie): the angle of the quadrant of p2 - p1
\* along which p2 - p1 is longest; arctan2(0, 0) is 0
find_angle(p1, p2) ==
    LET dx == p2[1] - p1[1]
        dy == p2[2] - p1[2]
        quadrant == IF dy >= 0 THEN (IF dx > 0 THEN 0 ELSE 1)
                    ELSE (IF dx < 0 THEN 2 ELSE 3)
        first == quadrant * (TwoPi \div 4)
        best == CHOOSE a \in first..(first + TwoPi \div 4) :
                    /\ Along(p1, p2, a) > Along(p1, p2, a - 1)
                    /\ Along(p1, p2, a) >= Along(p1, p2, a + 1)
    IN  IF dx = 0 /\ dy = 0 THEN 0 ELSE Mod2Pi(best)

----------------------------------------------------------------------------
(* Motion: the first part of step *)

new_direction(direction) == agent_direction + direction

\* the proposed position, computed with the direction before the turn
new_position_old_direction(speed, direction) ==
    <<agent_position[1] + RoundDiv(speed * Cos(agent_direction), 1000),
      agent_position[2] + RoundDiv(speed * Sin(agent_direction), 1000)>>

new_position(speed, direction) ==
    <<agent_position[1] + RoundDiv(speed * Cos(new_direction(direction)), 1000),
      agent_position[2] + RoundDiv(speed * Sin(new_direction(direction)), 1000)>>

\* the test of the if: the proposed position is inside the walls
move_ok(speed, direction) == Contains(new_position(speed, direction))

\* the position committed without the test
next_position_unchecked(speed, direction) == new_position(speed, direction)

\* self.agent_position after the if
next_position(speed, direction) ==
    IF move_ok(speed, direction) THEN new_position(speed, direction) ELSE agent_position

\* the turn committed whether or not the move is
next_direction_always(speed, direction) == Mod2Pi(new_direction(direction))

\* self.agent_direction after the if and the wrap that follows it
next_direction(speed, direction) ==
    Mod2Pi(IF move_ok(speed, direction) THEN new_direction(direction) ELSE agent_direction)

----------------------------------------------------------------------------
(* Raycasting: the second part of step, for the pose (pos, dir) *)

retina_indices == 0..(retina_dims[2] - 1)
retina_rows == 0..(retina_dims[1] - 1)
vertices == 0..(num_walls - 1)

angle_increment == agent_view_angle \div retina_dims[2]

\* the bearing of every vertex from pos, with no shift
edge_directions_unshifted(pos) ==
    Array([v \in vertices |-> Mod2Pi(find_angle(pos, walls[v]))])

\* agent_edge_directions: the bearing of every vertex from pos, moved back by
\* one angle_increment and wrapped
edge_directions(pos) ==
    Array([v \in vertices |-> Mod2Pi(find_angle(pos, walls[v]) - angle_increment)])

\* ray_angles[i]
ray_angles(dir, i) ==
    -(agent_view_angle \div 2) + i * angle_increment + angle_increment \div 2 + dir

max_fov_distance == 2 * wall_dist

\* the ray from pos at angle theta against wall k: pos + t * d = walls[k] + u * e
\* with t = tn / dn and u = un / dn; ok when the ray (of length
\* max_fov_distance) and the wall meet
RayHit(pos, theta, k) ==
    LET e == Minus(walls[k + 1], walls[k])
        d == <<Cos(theta), Sin(theta)>>
        den == Cross(d, e)
        sg == IF den > 0 THEN 1 ELSE -1
        tn == sg * Cross(Minus(walls[k], pos), e)
        un == sg * Cross(Minus(walls[k], pos), d)
        dn == sg * den
    IN  [ok |-> den # 0 /\ tn >= 0 /\ un >= 0 /\ un <= dn
                /\ 1000 * tn <= max_fov_distance * dn,
         tn |-> tn, dn |-> dn]

\* the walls the ray from pos at angle theta meets
hits(pos, theta) == {k \in vertices : RayHit(pos, theta, k).ok}

\* intersection.xy exists: the ray meets the ring in one point, away from pos.
\* An empty intersection and a MultiPoint have no xy, and the read raises; a
\* ray that starts on the ring meets it at its own start.
has_xy(pos, theta) ==
    /\ hits(pos, theta) # {}
    /\ \A k \in hits(pos, theta) : RayHit(pos, theta, k).tn > 0
    /\ \A j, k \in hits(pos, theta) :
          RayHit(pos, theta, j).tn * RayHit(pos, theta, k).dn
              = RayHit(pos, theta, k).tn * RayHit(pos, theta, j).dn

\* every ray of the view has a single intersection point
rays_have_xy(pos, dir) == \A i \in retina_indices : has_xy(pos, ray_angles(dir, i))

\* self.walls.exterior.intersection(ray): the point where the ray from pos at
\* angle theta meets the ring, in hundredths of a length unit. From inside the
\* convex ring the ray meets it in one point; where that point is a vertex,
\* both walls of the vertex give it.
intersection(pos, theta) ==
    LET near == RayHit(pos, theta, CHOOSE k \in vertices : RayHit(pos, theta, k).ok)
    IN  <<100 * pos[1] + RoundDiv(100 * near.tn * Cos(theta), near.dn),
          100 * pos[2] + RoundDiv(100 * near.tn * Sin(theta), near.dn)>>

\* distances: from pos to the wall along every ray, in hundredths of a length unit
ray_distances(pos, dir) ==
    Array([i \in retina_indices |->
        Norm(Minus(intersection(pos, ray_angles(dir, i)), <<100 * pos[1], 100 * pos[2]>>))])

height == wall_height - agent_height

\* (hgt / dist) * agent_pov_dist / retina_scale as a quotient <<numerator, denominator>>
pov_over_scale(hgt, dist) ==
    <<hgt * agent_pov_dist * 100, 1000 * dist * retina_scale>>

\* b and h: the retina rows of the foot and of the top of the wall, per column
base_rows(dist) ==
    Array([i \in retina_indices |->
        retina_pov_horizon - astype_int(pov_over_scale(agent_height, dist[i]))])

top_rows(dist) ==
    Array([i \in retina_indices |->
        retina_pov_horizon + astype_int(pov_over_scale(height, dist[i]))])

\* lower_bounds[i], upper_bounds[i]
lower_bounds(dir, i) == Mod2Pi(ray_angles(dir, i) - angle_increment \div 2)
upper_bounds(dir, i) == Mod2Pi(ray_angles(dir, i) + angle_increment \div 2)

\* edges = (lb < ad) & (ad < ub)
edge_matrix(dir, ad) ==
    Array([i \in retina_indices |->
        Array([v \in vertices |->
            lower_bounds(dir, i) < ad[v] /\ ad[v] < upper_bounds(dir, i)])])

\* np.where(edges)[0], as a set of columns
edges_in_retina(ed) == {i \in retina_indices : \E v \in vertices : ed[i][v]}

----------------------------------------------------------------------------
(* The retina buffer *)

\* np.zeros(dims)
zeros(dims) == [r \in 0..(dims[1] - 1) |-> [c \in 0..(dims[2] - 1) |-> 0]]

\* the buffer left as it is
Clear_skipped(m) == m

\* self.retina *= 0
Clear(m) == [r \in DOMAIN m |-> [c \in DOMAIN m[r] |-> m[r][c] * 0]]

\* self.retina[rows[valid], retina_indices[valid]] = 1, valid where 0 <= rows < height
SetRows(m, rows) ==
    [r \in DOMAIN m |->
        [c \in DOMAIN m[r] |->
            IF c \in retina_indices /\ 0 <= rows[c] /\ rows[c] < retina_dims[1] /\ rows[c] = r
            THEN 1 ELSE m[r][c]]]

\* inner_wall[r][c] = (b < col) & (col < h)
inner_wall(bb, hh, r, c) == bb[c] < r /\ r < hh[c]

\* for e in edges_in_retina: self.retina[:, e] = 1 * inner_wall[:, e]
DrawEdges(m, bb, hh, ed) ==
    [r \in DOMAIN m |->
        [c \in DOMAIN m[r] |->
            IF c \in edges_in_retina(ed)
            THEN (IF inner_wall(bb, hh, r, c) THEN 1 ELSE 0)
            ELSE m[r][c]]]

\* what step writes into the buffer m
Paint(m, bb, hh, ed) == DrawEdges(SetRows(SetRows(m, bb), hh), bb, hh, ed)

\* the slice [:0:-1], which leaves the last row out
Reversed_short(m) ==
    LET n == Cardinality(DOMAIN m)
    IN  [r \in 0..(n - 2) |-> m[n - 1 - r]]

\* self.retina[::-1]
Reversed(m) ==
    LET n == Cardinality(DOMAIN m)
    IN  [r \in 0..(n - 1) |-> m[n - 1 - r]]

----------------------------------------------------------------------------
(* step(speed, direction) *)

\* the motion: the new pose, and the branch the containment test took
Move(speed, direction) ==
    /\ agent_direction' = next_direction(speed, direction)
    /\ agent_position' = next_position(speed, direction)
    /\ outcome' = IF move_ok(speed, direction) THEN "commit" ELSE "reject"

\* the raycasting from the new pose, and the buffer returned
See ==
    /\ agent_edge_directions' = edge_directions(agent_position')
    /\ distances' = ray_distances(agent_position', agent_direction')
    /\ b' = base_rows(distances')
    /\ h' = top_rows(distances')
    /\ edges' = edge_matrix(agent_direction', agent_edge_directions')
    /\ retina' = Paint(Clear(retina), b', h', edges')
    /\ returned' = Reversed(retina')

\* intersection.xy raises while distances is built: the pose is committed and
\* the retina cleared, nothing is painted and nothing is returned
Raise ==
    /\ retina' = Clear(retina)
    /\ returned' = <<>>
    /\ UNCHANGED <<agent_edge_directions, distances, b, h, edges>>

Step(speed, direction) ==
    /\ status = "ready"
    /\ Move(speed, direction)
    /\ IF rays_have_xy(agent_position', agent_direction') THEN See ELSE Raise
    /\ UNCHANGED <<args, status>>

\* the arguments the model's configuration is constructed with
ModelArgs ==
    [wall_dist |-> wall_dist, wall_height |-> wall_height, num_walls |-> num_walls,
     retina_dims |-> retina_dims, retina_scale |-> retina_scale]

\* the state __init__ leaves
Init ==
    /\ agent_position = <<0, 0>>
    /\ agent_direction = 0
    /\ retina = zeros(retina_dims)
    /\ returned = <<>>
    /\ outcome = "none"
    /\ agent_edge_directions = <<>>
    /\ distances = <<>>
    /\ b = <<>>
    /\ h = <<>>
    /\ edges = <<>>
    /\ args = ModelArgs
    /\ status = "ready"

Next == \E speed \in Speeds, direction \in Turns : Step(speed, direction)

Spec == Init /\ [][Next]_vars

----------------------------------------------------------------------------
(* __init__(wall_dist, wall_height, num_walls, retina_dims, retina_scale, ...) *)

\* the arguments __init__ is tried with
ArgSpace ==
    [wall_dist : {-wall_dist, 0, wall_dist},
     wall_height : {-wall_height, 0, wall_height},
     num_walls : 0..num_walls,
     retina_dims : {retina_dims, <<0, retina_dims[2]>>, <<retina_dims[1], 0>>,
                    <<-1, retina_dims[2]>>},
     retina_scale : {-retina_scale, 0, retina_scale}]

\* __init__ checks none of its arguments. It ends in an exception only where a
\* library call does: np.zeros of a negative dimension; angles[0] of an empty
\* array (num_walls < 1); Polygon of a ring of fewer than four coordinates
\* (num_walls < 3).
Construct ==
    /\ status = "new"
    /\ IF args.retina_dims[1] < 0 \/ args.retina_dims[2] < 0 \/ args.num_walls < 3
       THEN /\ status' = "error"
            /\ UNCHANGED <<agent_position, agent_direction, retina>>
       ELSE /\ status' = "ready"
            /\ agent_position' = <<0, 0>>
            /\ agent_direction' = 0
            /\ retina' = zeros(args.retina_dims)
    /\ UNCHANGED <<returned, outcome, agent_edge_directions, distances, b, h, edges, args>>

InitNew ==
    /\ args \in ArgSpace
    /\ status = "new"
    /\ agent_position = <<>>
    /\ agent_direction = 0
    /\ retina = <<>>
    /\ returned = <<>>
    /\ outcome = "none"
    /\ agent_edge_directions = <<>>
    /\ distances = <<>>
    /\ b = <<>>
    /\ h = <<>>
    /\ edges = <<>>

NextConstruct == Construct

SpecConstruct == InitNew /\ [][NextConstruct]_vars

----------------------------------------------------------------------------
(* Properties *)

\* a step call has returned
Stepped == outcome # "none"

\* position + speed * (cos(direction + delta), sin(direction + delta))
ProposedPosition(speed, delta) ==
    <<agent_position[1] + RoundDiv(speed * Cos(agent_direction + delta), 1000),
      agent_position[2] + RoundDiv(speed * Sin(agent_direction + delta), 1000)>>

\* C1: from the constructed state on and after every step call, the agent
\* position is contained in the wall polygon.
C1_Containment == Contains(agent_position)

\* the agent has left the origin and a later call was rejected at the wall
C1_Witness == outcome = "reject" /\ agent_position # <<0, 0>>

C3_RejectionKeepsPose ==
    [][\A speed \in Speeds, delta \in Turns :
          (Move(speed, delta) /\ ~Contains(ProposedPosition(speed, delta)))
          => (agent_position' = agent_position /\ agent_direction' = agent_direction)]_vars

\* a call was rejected while the agent was heading away from its first direction
C3_Witness == outcome = "reject" /\ agent_direction # 0

\* m has the shape (retina height, retina width) and entries 0 or 1
IsBuffer(m) ==
    /\ DOMAIN m = retina_rows
    /\ \A r \in retina_rows :
          /\ DOMAIN m[r] = retina_indices
          /\ \A c \in retina_indices : m[r][c] \in {0, 1}

\* C4: every step call returns a buffer of shape (retina height, retina
\* width) with every entry 0 or 1, and the retina is never resized.
C4_BufferShapeRange == IsBuffer(retina) /\ (Stepped => IsBuffer(returned))

\* a returned buffer with a lit pixel and a column whose floor row is clipped
C4_Witness ==
    /\ Stepped
    /\ \E r \in retina_rows, c \in retina_indices : returned[r][c] = 1
    /\ \E i \in retina_indices : b[i] < 0

\* the buffer a step returns from the pose (pos, dir) when it starts from an
\* empty retina
FreshView(pos, dir) ==
    LET dist == ray_distances(pos, dir)
    IN  Reversed(Paint(zeros(retina_dims), base_rows(dist), top_rows(dist),
                       edge_matrix(dir, edge_directions(pos))))

\* C5: the returned buffer depends on the current pose alone (no pixel of an
\* earlier step survives), and step(0, 0) after a step leaves position,
\* direction and the returned buffer as they were.
C5_ZeroMotionIdempotent ==
    [][/\ returned' = FreshView(agent_position', agent_direction')
       /\ (Stepped /\ Move(0, 0))
          => /\ returned' = returned
             /\ agent_position' = agent_position
             /\ agent_direction' = agent_direction]_vars

\* the agent has moved on, and a pixel lit in the view from the first pose is dark
C5_Witness ==
    /\ Stepped
    /\ agent_position # <<0, 0>>
    /\ \E r \in retina_rows, c \in retina_indices :
          FreshView(<<0, 0>>, 0)[r][c] = 1 /\ returned[r][c] = 0

\* C6: after step, for every column i, pixel (b_i, i) is 1 if b_i is a row of
\* the retina and pixel (h_i, i) is 1 if h_i is, corner columns included.
C6_BoundaryPixelsSet ==
    Stepped =>
        \A i \in retina_indices :
            /\ (0 <= b[i] /\ b[i] < retina_dims[1]) => retina[b[i]][i] = 1
            /\ (0 <= h[i] /\ h[i] < retina_dims[1]) => retina[h[i]][i] = 1

TruncatedTo(q, k) ==
    IF q[1] >= 0
    THEN k * q[2] <= q[1] /\ q[1] < (k + 1) * q[2]
    ELSE (k - 1) * q[2] < q[1] /\ q[1] <= k * q[2]

\* k is an integer nearest to the quotient q[1] / q[2]
NearestTo(q, k) ==
    /\ 2 * (q[1] - k * q[2]) <= q[2]
    /\ 2 * (k * q[2] - q[1]) <= q[2]

\* C9, as claimed: b_i = horizon_row - round(pov_base_i / retina_scale) and
\* h_i = horizon_row + round(pov_top_i / retina_scale).
C9_RowsRounded ==
    Stepped =>
        \A i \in retina_indices :
            /\ NearestTo(pov_over_scale(agent_height, distances[i]), retina_pov_horizon - b[i])
            /\ NearestTo(pov_over_scale(height, distances[i]), h[i] - retina_pov_horizon)

\* C9, amended: b_i = horizon_row - trunc(pov_base_i / retina_scale) and
\* h_i = horizon_row + trunc(pov_top_i / retina_scale), trunc dropping the
\* fraction (towards zero).
C9_RowsTruncated ==
    Stepped =>
        \A i \in retina_indices :
            /\ TruncatedTo(pov_over_scale(agent_height, distances[i]), retina_pov_horizon - b[i])
            /\ TruncatedTo(pov_over_scale(height, distances[i]), h[i] - retina_pov_horizon)

\* a column whose dropped fraction is a half or more
C9_Witness ==
    /\ Stepped
    /\ \E i \in retina_indices :
          LET q == pov_over_scale(agent_height, distances[i])
          IN  2 * (q[1] % q[2]) >= q[2]

\* the arguments are a valid configuration
ValidArgs(a) ==
    /\ a.num_walls >= 3
    /\ a.wall_dist > 0
    /\ a.wall_height > 0
    /\ a.retina_dims[1] > 0
    /\ a.retina_dims[2] > 0
    /\ a.retina_scale > 0

\* C8: constructing with num_walls < 3 or a non-positive wall distance, wall
\* height, retina dimension or retina scale ends in an error, and yields no
\* simulator on which step can be called.
C8_InvalidConfigFailsFast == status = "ready" => ValidArgs(args)

=============================================================================
